---------------------------- MODULE Spec2Model ----------------------------
(***************************************************************************)
(* Model of pubcrypt-rs: modular exponentiation (math/src/lib.rs), the     *)
(* Miller-Rabin witness test and the random prime search                   *)
(* (math/src/primes/mod.rs), the ElGamal block primitive                   *)
(* (src/crypt/mod.rs) and the ECB driver (src/main.rs).                    *)
(*                                                                         *)
(* The integer widths are scaled so that the model is finite: a byte has   *)
(* BITS_PER_BYTE = 2 bits (8 in the source), a Block is BLOCK_BYTES = 2    *)
(* bytes (4 in the source) and a Num is NUM_BYTES = 4 bytes (8 in the      *)
(* source).  The relations of the source are kept: a Num is twice as wide  *)
(* as a Block, a BigNum twice as wide as a Num, and a byte can hold the    *)
(* pad count BLOCK_BYTES.                                                  *)
(***************************************************************************)
EXTENDS Integers, Sequences, FiniteSets, TLC

\* ------------------------------------------------------------------------
\* Widths and limits
\* ------------------------------------------------------------------------
BITS_PER_BYTE == 2

BLOCK_BYTES == 2

NUM_BYTES == 4

BITS_PER_NUM == NUM_BYTES * BITS_PER_BYTE

RECURSIVE Pow2(_)
Pow2(k) == IF k = 0 THEN 1 ELSE 2 * Pow2(k - 1)

NumMAX == Pow2(BITS_PER_NUM) - 1

BigNumMAX == Pow2(2 * BITS_PER_NUM) - 1

BlockMAX == Pow2(BLOCK_BYTES * BITS_PER_BYTE) - 1

ByteMAX == Pow2(BITS_PER_BYTE) - 1

MinOf(a, b) == IF a <= b THEN a ELSE b

\* Num::saturating_add
saturating_add(a, b) == MinOf(a + b, NumMAX)

\* BigNum arithmetic, reduced to the width of the type
BigMul(a, b) == (a * b) % (BigNumMAX + 1)

\* ------------------------------------------------------------------------
\* Bounds of the model
\* ------------------------------------------------------------------------
\* mod_exp is called with arguments in 0..MaxArg and the two largest Nums
MaxArg == 6

ArgVals == (0 .. MaxArg) \cup {NumMAX - 1, NumMAX}

\* the block cipher is run with every matched key pair whose prime is at most
\* MaxKeyPrime
MaxKeyPrime == 19

\* the ECB driver is run on the byte streams made of at most MaxWholeBlocks
\* whole blocks followed by any MaxTailLen or fewer bytes, with private
\* exponents up to MaxEcbExp and ephemeral exponents up to MaxEcbDraw
MaxWholeBlocks == 4

MaxTailLen == 2

MaxEcbExp == 1

MaxEcbDraw == 1

\* the codebook runs of the ECB driver encrypt at most MaxCodebookBlocks equal
\* whole blocks with ephemeral exponents up to MaxCodebookDraw
MaxCodebookBlocks == 2

MaxCodebookDraw == 3

\* capacity of a BufReader, in ciphertext pairs (std's DEFAULT_BUF_SIZE is
\* 8192 bytes, 512 pairs of 16 bytes)
BufCapPairs == 1

\* the prime search is called with min and max in 0..MaxPrimeArg, 25 and
\* the Nagura bound of 25; a capped search is followed for MaxTries draws
MaxPrimeArg == 9

MaxTries == 2

\* the density oracle is called with min and max in 0..MaxOracleArg and the
\* OracleTop largest Nums
MaxOracleArg == 40

OracleTop == 6

\* ------------------------------------------------------------------------
\* math/src/lib.rs
\* ------------------------------------------------------------------------
Some(v) == [some |-> TRUE, val |-> v]

None == [some |-> FALSE, val |-> 0]

\* variants of get_mod_exp_optimization with a plausible slip
\* the x^0 shortcut forgets the reduction of 1
get_mod_exp_optimization_unreduced_one(b, exponent_, modulus_) ==
    IF exponent_ = 0 THEN Some(1)
    ELSE IF b = 0 \/ b = modulus_ \/ modulus_ = 1 THEN Some(0)
    ELSE IF b = 1 \/ modulus_ = 2 THEN Some(b % modulus_)
    ELSE None

\* the zero shortcut is tried before the x^0 shortcut
get_mod_exp_optimization_zero_first(b, exponent_, modulus_) ==
    IF b = 0 \/ b = modulus_ \/ modulus_ = 1 THEN Some(0)
    ELSE IF exponent_ = 0 THEN Some(1 % modulus_)
    ELSE IF b = 1 \/ modulus_ = 2 THEN Some(b % modulus_)
    ELSE None

get_mod_exp_optimization(b, exponent_, modulus_) ==
    IF exponent_ = 0 THEN Some(1 % modulus_)
    ELSE IF b = 0 \/ b = modulus_ \/ modulus_ = 1 THEN Some(0)
    ELSE IF b = 1 \/ modulus_ = 2 THEN Some(b % modulus_)
    ELSE None

\* the assertions at the head of mod_exp
mod_exp_accepts(b, exponent_, modulus_) ==
    modulus_ > 0 /\ saturating_add(b, exponent_) # 0

\* `exponent & mask != 0` for a one-bit mask
BitSet(exponent_, mask_) == (exponent_ \div mask_) % 2 = 1

\* variant of mod_exp_step that multiplies before it squares
mod_exp_step_multiply_first(res, b, exponent_, mask_, modulus_) ==
    LET mu == IF BitSet(exponent_, mask_) THEN BigMul(res, b) % modulus_ ELSE res
    IN  BigMul(mu, mu) % modulus_

\* one pass of the square-and-multiply loop body
mod_exp_step(res, b, exponent_, mask_, modulus_) ==
    LET sq == BigMul(res, res) % modulus_
    IN  IF BitSet(exponent_, mask_) THEN BigMul(sq, b) % modulus_ ELSE sq

RECURSIVE mod_exp_loop(_, _, _, _, _, _)
mod_exp_loop(n, res, b, exponent_, mask_, modulus_) ==
    IF n = 0 THEN res
    ELSE mod_exp_loop(n - 1, mod_exp_step(res, b, exponent_, mask_, modulus_),
                      b, exponent_, mask_ \div 2, modulus_)

\* mod_exp on arguments it accepts
mod_exp(b, exponent_, modulus_) ==
    LET rb  == b % modulus_
        opt == get_mod_exp_optimization(rb, exponent_, modulus_)
    IN  IF opt.some THEN opt.val
        ELSE mod_exp_loop(BITS_PER_NUM, 1, rb, exponent_,
                          Pow2(BITS_PER_NUM - 1), modulus_) % (NumMAX + 1)

\* ------------------------------------------------------------------------
\* math/src/primes/mod.rs
\* ------------------------------------------------------------------------
WITNESS_COUNT == 25

NAGURA_1952_MIN == 25

\* the assertions at the head of is_witness and of check_random_witnesses
is_witness_accepts(n) == n >= 3 /\ n % 2 = 1

\* `while q % 2 == 0 { q >>= 1; k += 1; }` started from (q, k)
RECURSIVE split_even(_, _)
split_even(q, k) ==
    IF q % 2 = 0 THEN split_even(q \div 2, k + 1) ELSE [q |-> q, k |-> k]

\* variant of is_witness whose second check starts at i = 1
is_witness_skip_first(n, val) ==
    LET d == split_even(n - 1, 0)
        check_second(i) == mod_exp(val, Pow2(i) * d.q, n) # n - 1
    IN  /\ mod_exp(val, d.q, n) # 1
        /\ \A i \in 1 .. (d.k - 1) : check_second(i)

\* is_witness for an odd n >= 3
is_witness(n, val) ==
    LET d == split_even(n - 1, 0)
        check_second(i) == mod_exp(val, Pow2(i) * d.q, n) # n - 1
    IN  /\ mod_exp(val, d.q, n) # 1
        /\ \A i \in 0 .. (d.k - 1) : check_second(i)

\* rng.gen_range(2..n - 1): the values check_random_witnesses can draw
witness_range(n) == 2 .. (n - 2)

\* the assertions at the head of range_contains_known_prime
range_contains_known_prime_accepts(min_, max_) == min_ >= 3 /\ max_ >= min_

\* `((1.0 + epsilon) * fmin).ceil() as Num` with epsilon = 0.2, the value for
\* 25 <= min < DUSART_1998_MIN = 3275, which holds of every Num of the model
\* from 25 on; on these values the f64 computation gives ceil(6 * min / 5),
\* and the cast of a float above Num::MAX saturates
nagura_bound(min_) == MinOf((6 * min_ + 4) \div 5, NumMAX)

range_contains_known_prime(min_, max_) ==
    IF min_ < NAGURA_1952_MIN THEN max_ >= 2 * min_
    ELSE max_ >= nagura_bound(min_)

\* variant of gen_candidate_range that draws from one value too many
gen_candidate_range_past_max(min_, max_) == min_ .. (max_ + 1)

\* `(min..=max).choose(rng)`: the candidates gen_candidate can draw
gen_candidate_range(min_, max_) == min_ .. max_

\* `10_usize.saturating_mul((min - max + 1) as usize)` for min < max in a
\* build without overflow checks: the difference and the sum wrap
prime_attempts_wrapping(min_, max_) ==
    MinOf(10 * ((((min_ - max_) % (NumMAX + 1)) + 1) % (NumMAX + 1)), NumMAX)

\* ------------------------------------------------------------------------
\* src/crypt/mod.rs
\* ------------------------------------------------------------------------
PRIME_MIN == BlockMAX + 1

PRIME_MAX == NumMAX

Key(p, g, v) == [prime |-> p, root |-> g, value |-> v]

NoKey == Key(0, 0, 0)

\* the three assertions of encrypt_block_det
encrypt_block_det_accepts(key, r) ==
    key.prime > BlockMAX /\ r < key.prime /\ r > 0

\* variant of encrypt_block_det that masks the block with a power of the
\* root instead of the public value
encrypt_block_det_root_mask(block, key, r) ==
    LET er_mod_p == mod_exp(key.root, r, key.prime)
        c1       == mod_exp(key.root, r, key.prime)
        c2       == (BigMul(block, er_mod_p) % key.prime) % (NumMAX + 1)
    IN  <<c1, c2>>

\* encrypt_block_det: the pair (c1, c2)
encrypt_block_det(block, key, r) ==
    LET er_mod_p == mod_exp(key.value, r, key.prime)
        c1       == mod_exp(key.root, r, key.prime)
        c2       == (BigMul(block, er_mod_p) % key.prime) % (NumMAX + 1)
    IN  <<c1, c2>>

\* rng.gen_range(1..key.prime): the values encrypt_block can draw
encrypt_block_range(key) == 1 .. (key.prime - 1)

\* variant of decrypt_block_value that forgets the - 1 in the exponent
decrypt_block_value_full_order(c1, c2, key) ==
    LET c1_term == mod_exp(c1, key.prime - key.value, key.prime)
        c2_term == c2 % key.prime
    IN  BigMul(c1_term, c2_term) % key.prime

\* decrypt_block: `result` before the assertion and the cast to Block
decrypt_block_value(c1, c2, key) ==
    LET c1_term == mod_exp(c1, key.prime - key.value - 1, key.prime)
        c2_term == c2 % key.prime
    IN  BigMul(c1_term, c2_term) % key.prime

\* decrypt_block runs to its return: the subtraction does not underflow,
\* mod_exp accepts its arguments and the assertion on the result holds
decrypt_block_accepts(c1, c2, key) ==
    /\ key.prime >= key.value + 1
    /\ mod_exp_accepts(c1, key.prime - key.value - 1, key.prime)
    /\ decrypt_block_value(c1, c2, key) <= BlockMAX

\* ------------------------------------------------------------------------
\* src/main.rs
\* ------------------------------------------------------------------------
Bytes == 0 .. ByteMAX

RECURSIVE PowByte(_)
PowByte(k) == IF k = 0 THEN 1 ELSE (ByteMAX + 1) * PowByte(k - 1)

\* {Num,Block}::to_be_bytes: the most significant byte first
to_be_bytes(n, width) ==
    [i \in 1 .. width |-> (n \div PowByte(width - i)) % (ByteMAX + 1)]

\* {Num,Block}::from_be_bytes
RECURSIVE from_be_bytes(_)
from_be_bytes(bytes) ==
    IF bytes = <<>> THEN 0
    ELSE from_be_bytes(SubSeq(bytes, 1, Len(bytes) - 1)) * (ByteMAX + 1)
         + bytes[Len(bytes)]

\* BufReader::new: the capacity of the reader's buffer
BUF_CAP == BufCapPairs * 2 * NUM_BYTES

\* BufReader::fill_buf over a regular file: the buffer is refilled from the
\* file only when it is empty
fill_buf(file, pos, rbuf_) ==
    IF rbuf_ # <<>> THEN [pos |-> pos, buf |-> rbuf_]
    ELSE LET n == MinOf(BUF_CAP, Len(file) - pos)
         IN  [pos |-> pos + n, buf |-> SubSeq(file, pos + 1, pos + n)]

\* variant of consume that leaves the last consumed byte in the buffer
consume_one_less(rbuf_, n) == SubSeq(rbuf_, n, Len(rbuf_))

\* BufReader::consume
consume(rbuf_, n) == SubSeq(rbuf_, n + 1, Len(rbuf_))

\* the bytes of the buffer pad_block overwrites with random bytes
\* (buf[pad_start..pad_end], 0-based and half-open, here 1-based)
pad_fill_range(pad_bytes) == (BLOCK_BYTES - pad_bytes + 1) .. (BLOCK_BYTES - 1)

\* variant of pad_block that stores the count in the first pad byte
pad_block_count_first(buf_, pad_bytes, fill) ==
    [i \in 1 .. BLOCK_BYTES |->
        IF i = BLOCK_BYTES - pad_bytes + 1 THEN pad_bytes
        ELSE IF i \in pad_fill_range(pad_bytes) \/ i = BLOCK_BYTES THEN 0
        ELSE buf_[i]]

\* pad_block: random bytes in the unused space, the pad count in the last byte
pad_block(buf_, pad_bytes, fill) ==
    [i \in 1 .. BLOCK_BYTES |->
        IF i = BLOCK_BYTES THEN pad_bytes
        ELSE IF i \in pad_fill_range(pad_bytes) THEN fill[i]
        ELSE buf_[i]]

\* encrypt_block_to_file: the bytes written for one block
encrypt_block_to_file(buf_, key, rr) ==
    LET pair == encrypt_block_det(from_be_bytes(buf_), key, rr)
    IN  to_be_bytes(pair[1], NUM_BYTES) \o to_be_bytes(pair[2], NUM_BYTES)

\* ------------------------------------------------------------------------
\* State
\* ------------------------------------------------------------------------
VARIABLES
    \* one call of mod_exp, statement by statement
    mx_pc,        \* "call", "loop", "done", "panic"
    arg_base,     \* the base the caller passed
    base,         \* `mut base`
    exponent,
    modulus,
    result,       \* `result: BigNum`
    mask,
    iter,         \* passes of the for loop still to run
    mx_ret,       \* the returned Num (meaningful when mx_pc = "done")
    \* one block through encrypt_block and decrypt_block
    cr_pc,        \* "start", "encrypted", "decrypted", "panic"
    public,       \* KeyPair.public
    private,      \* KeyPair.private
    block,        \* the plaintext block
    r,            \* the ephemeral exponent encrypt_block drew
    c1,
    c2,
    decrypted,    \* what decrypt_block returned
    \* encrypt_ecb followed by decrypt_ecb on its output
    ecb_pc,       \* "encrypt", "decrypt", "done", "error", "panic"
    enc_key,      \* settings.key of the encrypting run
    dec_key,      \* settings.key of the decrypting run
    plain,        \* the plaintext file
    in_pos,       \* bytes of the plaintext file read so far
    rbuf,         \* unread bytes in the buffer of the plaintext reader
    buf,          \* `buf: [u8; BLOCK_BYTES]` of encrypt_ecb
    has_padded_block,
    cipher,       \* the ciphertext file
    dec_pos,      \* bytes of the ciphertext file read so far
    dbuf,         \* unread bytes in the buffer of the ciphertext reader
    out,          \* the file decrypt_ecb writes
    rng_max,      \* the largest exponent the random source of the run yields
    \* one call of pick_random_prime or pick_random_with_root
    pr_pc,        \* "call", "draw", "witness", "done"
    entry,        \* the function called
    overflow_checks, \* the build panics on integer overflow (debug profile)
    min,
    max,
    mode,         \* "single": min = max, "known": the oracle holds,
                  \* "capped": bounded attempts, "root": get_primitive_root
    cand,         \* the candidate is_prime is testing
    wcount,       \* values check_random_witnesses has drawn and found no witness
    verdict,      \* what is_prime last returned about cand: "none", "prime", "composite"
    prime_attempts,
    tries,        \* candidates drawn by the capped loop
    outcome,      \* "none", "Ok", "InvalidRange", "PrimeNotFound", "panic"
    prime,        \* the prime pick_random_prime returned, 0 when none
    root,         \* the root get_primitive_root returned, 0 when none
    \* one call of range_contains_known_prime
    or_pc,        \* "call", "done", "panic"
    or_min,
    or_max,
    or_ret

mxVars == <<mx_pc, arg_base, base, exponent, modulus, result, mask, iter, mx_ret>>

crVars == <<cr_pc, public, private, block, r, c1, c2, decrypted>>

ecbVars == <<ecb_pc, enc_key, dec_key, plain, in_pos, rbuf, buf,
             has_padded_block, cipher, dec_pos, dbuf, out, rng_max>>

prVars == <<pr_pc, entry, overflow_checks, min, max, mode, cand, wcount,
            verdict, prime_attempts, tries, outcome, prime, root>>

orVars == <<or_pc, or_min, or_max, or_ret>>

vars == <<mxVars, crVars, ecbVars, prVars, orVars>>

\* ------------------------------------------------------------------------
\* Reference arithmetic used to state the properties and to pick the inputs
\* ------------------------------------------------------------------------
\* b^e mod m as the product of e factors b, multiplied out in two halves
\* (b^(x+y) = b^x * b^y) to keep the recursion shallow
RECURSIVE PowMod(_, _, _)
PowMod(b, e, m) ==
    IF e = 0 THEN 1 % m
    ELSE IF e = 1 THEN b % m
    ELSE (PowMod(b, e \div 2, m) * PowMod(b, e - (e \div 2), m)) % m

\* n is a prime number, by trial division
IsPrimeNumber(n) == n >= 2 /\ \A d \in 2 .. (n - 1) : n % d # 0

\* the multiplicative order of g modulo the prime p is p - 1
IsPrimitiveRoot(g, p) ==
    /\ g \in 1 .. (p - 1)
    /\ \A k \in 1 .. (p - 2) : PowMod(g, k, p) # 1

\* the components not taking part in a specification stay idle
MxIdle ==
    /\ mx_pc = "idle"
    /\ arg_base = 0 /\ base = 0 /\ exponent = 0 /\ modulus = 0
    /\ result = 0 /\ mask = 0 /\ iter = 0 /\ mx_ret = 0

CrIdle ==
    /\ cr_pc = "idle"
    /\ public = NoKey /\ private = NoKey
    /\ block = 0 /\ r = 0 /\ c1 = 0 /\ c2 = 0 /\ decrypted = 0

EcbIdle ==
    /\ ecb_pc = "idle"
    /\ enc_key = NoKey /\ dec_key = NoKey
    /\ plain = <<>> /\ in_pos = 0 /\ rbuf = <<>>
    /\ buf = [i \in 1 .. BLOCK_BYTES |-> 0]
    /\ has_padded_block = FALSE
    /\ cipher = <<>> /\ dec_pos = 0 /\ dbuf = <<>> /\ out = <<>>
    /\ rng_max = 0

PrIdle ==
    /\ pr_pc = "idle"
    /\ entry = "none" /\ overflow_checks = FALSE
    /\ min = 0 /\ max = 0 /\ mode = "none" /\ cand = 0 /\ wcount = 0
    /\ verdict = "none" /\ prime_attempts = 0 /\ tries = 0
    /\ outcome = "none" /\ prime = 0 /\ root = 0

OrIdle ==
    /\ or_pc = "idle"
    /\ or_min = 0 /\ or_max = 0 /\ or_ret = FALSE

\* ------------------------------------------------------------------------
\* One call of mod_exp
\* ------------------------------------------------------------------------
MxInit ==
    /\ mx_pc = "call"
    /\ arg_base \in ArgVals
    /\ exponent \in ArgVals
    /\ modulus \in ArgVals
    /\ base = arg_base
    /\ result = 1
    /\ mask = Pow2(BITS_PER_NUM - 1)
    /\ iter = BITS_PER_NUM
    /\ mx_ret = 0

\* lines 59-60: an assertion fails
MxPanic ==
    /\ mx_pc = "call"
    /\ ~mod_exp_accepts(base, exponent, modulus)
    /\ mx_pc' = "panic"
    /\ UNCHANGED <<arg_base, base, exponent, modulus, result, mask, iter, mx_ret>>

\* lines 62-66: reduce the base, return through a shortcut
MxShortcut ==
    /\ mx_pc = "call"
    /\ mod_exp_accepts(base, exponent, modulus)
    /\ LET opt == get_mod_exp_optimization(base % modulus, exponent, modulus)
       IN  /\ opt.some
           /\ mx_ret' = opt.val
    /\ base' = base % modulus
    /\ mx_pc' = "done"
    /\ UNCHANGED <<arg_base, exponent, modulus, result, mask, iter>>

\* lines 62-69: reduce the base, no shortcut applies, enter the loop
MxEnterLoop ==
    /\ mx_pc = "call"
    /\ mod_exp_accepts(base, exponent, modulus)
    /\ ~get_mod_exp_optimization(base % modulus, exponent, modulus).some
    /\ base' = base % modulus
    /\ mx_pc' = "loop"
    /\ UNCHANGED <<arg_base, exponent, modulus, result, mask, iter, mx_ret>>

\* lines 73-81: one pass of the loop
MxStep ==
    /\ mx_pc = "loop"
    /\ iter > 0
    /\ result' = mod_exp_step(result, base, exponent, mask, modulus)
    /\ mask' = mask \div 2
    /\ iter' = iter - 1
    /\ UNCHANGED <<mx_pc, arg_base, base, exponent, modulus, mx_ret>>

\* line 83: `result as Num`
MxReturn ==
    /\ mx_pc = "loop"
    /\ iter = 0
    /\ mx_ret' = result % (NumMAX + 1)
    /\ mx_pc' = "done"
    /\ UNCHANGED <<arg_base, base, exponent, modulus, result, mask, iter>>

MxNext == MxPanic \/ MxShortcut \/ MxEnterLoop \/ MxStep \/ MxReturn

Init == MxInit /\ CrIdle /\ EcbIdle /\ PrIdle /\ OrIdle

Next == MxNext /\ UNCHANGED <<crVars, ecbVars, prVars, orVars>>

Spec == Init /\ [][Next]_vars

\* ------------------------------------------------------------------------
\* One block through encrypt_block and decrypt_block with a matched key pair
\* ------------------------------------------------------------------------
\* the matched key pairs: a prime above Block::MAX, a primitive root of it,
\* a private exponent in [1, p-2] and the public value root^exponent mod p
\* (KeyPair::generate, lines 71-84)
KeyPrimes == {p \in PRIME_MIN .. MinOf(MaxKeyPrime, PRIME_MAX) : IsPrimeNumber(p)}

CrInit ==
    /\ cr_pc = "start"
    /\ \E p \in KeyPrimes :
         \E g \in {h \in 1 .. (p - 1) : IsPrimitiveRoot(h, p)} :
           \E priv_exp \in 1 .. (p - 2) :
             /\ public = Key(p, g, mod_exp(g, priv_exp, p))
             /\ private = Key(p, g, priv_exp)
    /\ block \in 0 .. BlockMAX
    /\ r = 0 /\ c1 = 0 /\ c2 = 0 /\ decrypted = 0

\* encrypt_block: draw r, then encrypt_block_det
CrEncrypt ==
    /\ cr_pc = "start"
    /\ \E rr \in encrypt_block_range(public) :
         /\ r' = rr
         /\ IF encrypt_block_det_accepts(public, rr)
            THEN /\ c1' = encrypt_block_det(block, public, rr)[1]
                 /\ c2' = encrypt_block_det(block, public, rr)[2]
                 /\ cr_pc' = "encrypted"
            ELSE /\ cr_pc' = "panic"
                 /\ UNCHANGED <<c1, c2>>
    /\ UNCHANGED <<public, private, block, decrypted>>

\* decrypt_block on the pair just produced
CrDecrypt ==
    /\ cr_pc = "encrypted"
    /\ IF decrypt_block_accepts(c1, c2, private)
       THEN /\ decrypted' = decrypt_block_value(c1, c2, private) % (BlockMAX + 1)
            /\ cr_pc' = "decrypted"
       ELSE /\ cr_pc' = "panic"
            /\ UNCHANGED decrypted
    /\ UNCHANGED <<public, private, block, r, c1, c2>>

CrNext == CrEncrypt \/ CrDecrypt

InitCrypt == MxIdle /\ CrInit /\ EcbIdle /\ PrIdle /\ OrIdle

NextCrypt == CrNext /\ UNCHANGED <<mxVars, ecbVars, prVars, orVars>>

SpecCrypt == InitCrypt /\ [][NextCrypt]_vars

\* ------------------------------------------------------------------------
\* encrypt_ecb on a plaintext file, then decrypt_ecb on the file it wrote
\* ------------------------------------------------------------------------
SeqsUpTo(S, n) == UNION {[1 .. k -> S] : k \in 0 .. n}

\* a whole block whose last byte reads as a pad count
WholeBlock == [i \in 1 .. BLOCK_BYTES |-> IF i = BLOCK_BYTES THEN BLOCK_BYTES ELSE 1]

RECURSIVE WholeBlocks(_)
WholeBlocks(k) == IF k = 0 THEN <<>> ELSE WholeBlock \o WholeBlocks(k - 1)

EcbStreams ==
    {WholeBlocks(k) \o tail : k \in 0 .. MaxWholeBlocks,
                              tail \in SeqsUpTo(Bytes, MaxTailLen)}

\* the ephemeral exponents the model lets encrypt_block draw
EcbDraws(key) == {rr \in encrypt_block_range(key) : rr <= rng_max}

EcbInit ==
    /\ ecb_pc = "encrypt"
    /\ \E p \in {q \in KeyPrimes : \A q2 \in KeyPrimes : q <= q2} :
         \E g \in {h \in 1 .. (p - 1) : IsPrimitiveRoot(h, p)} :
           \E priv_exp \in 1 .. MinOf(MaxEcbExp, p - 2) :
             /\ \A h \in 1 .. (g - 1) : ~IsPrimitiveRoot(h, p)
             /\ enc_key = Key(p, g, mod_exp(g, priv_exp, p))
             /\ dec_key = Key(p, g, priv_exp)
    /\ plain \in EcbStreams
    /\ rng_max = MaxEcbDraw
    /\ in_pos = 0 /\ rbuf = <<>>
    /\ buf = [i \in 1 .. BLOCK_BYTES |-> 0]
    /\ has_padded_block = FALSE
    /\ cipher = <<>> /\ dec_pos = 0 /\ dbuf = <<>> /\ out = <<>>

\* encrypt_ecb, lines 109-127: one pass of the while loop
EcbEncryptBlock ==
    /\ ecb_pc = "encrypt"
    /\ LET rd             == fill_buf(plain, in_pos, rbuf)
           bytes_consumed == MinOf(Len(rd.buf), BLOCK_BYTES)
           pad_bytes      == BLOCK_BYTES - bytes_consumed
           copied         == [i \in 1 .. BLOCK_BYTES |->
                                 IF i <= bytes_consumed THEN rd.buf[i] ELSE buf[i]]
       IN  /\ rd.buf # <<>>
           /\ in_pos' = rd.pos
           /\ rbuf' = consume(rd.buf, bytes_consumed)
           /\ has_padded_block' = (has_padded_block \/ pad_bytes > 0)
           /\ \E fill \in [pad_fill_range(pad_bytes) -> Bytes] :
                buf' = IF pad_bytes > 0 THEN pad_block(copied, pad_bytes, fill)
                       ELSE copied
           /\ \E rr \in EcbDraws(enc_key) :
                IF encrypt_block_det_accepts(enc_key, rr)
                THEN /\ cipher' = cipher \o encrypt_block_to_file(buf', enc_key, rr)
                     /\ ecb_pc' = "encrypt"
                ELSE /\ ecb_pc' = "panic"
                     /\ UNCHANGED cipher
    /\ UNCHANGED <<enc_key, dec_key, plain, dec_pos, dbuf, out, rng_max>>

\* encrypt_ecb, lines 109 and 129-137: the reader is at the end of the file;
\* a stream without a padded block gets one more, fully padded block
EcbEncryptFinish ==
    /\ ecb_pc = "encrypt"
    /\ LET rd == fill_buf(plain, in_pos, rbuf)
       IN  /\ rd.buf = <<>>
           /\ in_pos' = rd.pos
           /\ rbuf' = rd.buf
    /\ IF has_padded_block
       THEN /\ ecb_pc' = "decrypt"
            /\ UNCHANGED <<buf, cipher>>
       ELSE /\ \E fill \in [pad_fill_range(BLOCK_BYTES) -> Bytes] :
                 buf' = pad_block(buf, BLOCK_BYTES, fill)
            /\ \E rr \in EcbDraws(enc_key) :
                 IF encrypt_block_det_accepts(enc_key, rr)
                 THEN /\ cipher' = cipher \o encrypt_block_to_file(buf', enc_key, rr)
                      /\ ecb_pc' = "decrypt"
                 ELSE /\ ecb_pc' = "panic"
                      /\ UNCHANGED cipher
    /\ UNCHANGED <<enc_key, dec_key, plain, has_padded_block, dec_pos, dbuf, out,
                   rng_max>>

\* decrypt_ecb, lines 146-179: one pass of the loop; it fails when fewer
\* bytes than one pair are left, emits a whole block when more pairs follow
\* and strips the pad from the last block
EcbDecryptBlock ==
    /\ ecb_pc = "decrypt"
    /\ LET rd  == fill_buf(cipher, dec_pos, dbuf)
           dc1 == from_be_bytes(SubSeq(rd.buf, 1, NUM_BYTES))
           dc2 == from_be_bytes(SubSeq(rd.buf, NUM_BYTES + 1, NUM_BYTES * 2))
           eof == fill_buf(cipher, rd.pos, consume(rd.buf, NUM_BYTES * 2))
           block_bytes == to_be_bytes(
               decrypt_block_value(dc1, dc2, dec_key) % (BlockMAX + 1), BLOCK_BYTES)
           pad_bytes == block_bytes[BLOCK_BYTES]
       IN  IF Len(rd.buf) < NUM_BYTES * 2
           THEN /\ dec_pos' = rd.pos
                /\ dbuf' = rd.buf
                /\ ecb_pc' = "error"
                /\ UNCHANGED out
           ELSE /\ dec_pos' = eof.pos
                /\ dbuf' = eof.buf
                /\ IF ~decrypt_block_accepts(dc1, dc2, dec_key)
                   THEN ecb_pc' = "panic" /\ UNCHANGED out
                   ELSE IF eof.buf # <<>>
                   THEN ecb_pc' = "decrypt" /\ out' = out \o block_bytes
                   ELSE IF pad_bytes <= BLOCK_BYTES
                   THEN /\ ecb_pc' = "done"
                        /\ out' = out \o SubSeq(block_bytes, 1,
                                                 BLOCK_BYTES - pad_bytes)
                   ELSE ecb_pc' = "panic" /\ UNCHANGED out
    /\ UNCHANGED <<enc_key, dec_key, plain, in_pos, rbuf, buf, has_padded_block,
                   cipher, rng_max>>

EcbNext == EcbEncryptBlock \/ EcbEncryptFinish \/ EcbDecryptBlock

InitEcb == MxIdle /\ CrIdle /\ EcbInit /\ PrIdle /\ OrIdle

NextEcb == EcbNext /\ UNCHANGED <<mxVars, crVars, prVars, orVars>>

SpecEcb == InitEcb /\ [][NextEcb]_vars

\* ------------------------------------------------------------------------
\* encrypt_ecb and decrypt_ecb on streams of equal whole blocks
\* ------------------------------------------------------------------------
\* the same runs as above, on the streams of at most MaxCodebookBlocks equal
\* blocks, with a random source that yields more than one exponent
CodebookInit ==
    /\ ecb_pc = "encrypt"
    /\ \E p \in {q \in KeyPrimes : \A q2 \in KeyPrimes : q <= q2} :
         \E g \in {h \in 1 .. (p - 1) : IsPrimitiveRoot(h, p)} :
           \E priv_exp \in 1 .. MinOf(MaxEcbExp, p - 2) :
             /\ \A h \in 1 .. (g - 1) : ~IsPrimitiveRoot(h, p)
             /\ enc_key = Key(p, g, mod_exp(g, priv_exp, p))
             /\ dec_key = Key(p, g, priv_exp)
    /\ \E k \in 0 .. MaxCodebookBlocks, first \in Bytes :
         plain = [i \in 1 .. (k * BLOCK_BYTES) |->
                     IF i % BLOCK_BYTES = 1 THEN first ELSE WholeBlock[BLOCK_BYTES]]
    /\ rng_max = MaxCodebookDraw
    /\ in_pos = 0 /\ rbuf = <<>>
    /\ buf = [i \in 1 .. BLOCK_BYTES |-> 0]
    /\ has_padded_block = FALSE
    /\ cipher = <<>> /\ dec_pos = 0 /\ dbuf = <<>> /\ out = <<>>

InitCodebook == MxIdle /\ CrIdle /\ CodebookInit /\ PrIdle /\ OrIdle

SpecCodebook == InitCodebook /\ [][NextEcb]_vars

\* ------------------------------------------------------------------------
\* One call of pick_random_prime or of pick_random_with_root
\* ------------------------------------------------------------------------
PrimeArgs == (0 .. MaxPrimeArg) \cup {NAGURA_1952_MIN, nagura_bound(NAGURA_1952_MIN)}

PrInit ==
    /\ pr_pc = "call"
    /\ entry \in {"pick_random_prime", "pick_random_with_root"}
    /\ overflow_checks \in BOOLEAN
    /\ min \in PrimeArgs
    /\ max \in PrimeArgs
    /\ mode = "none" /\ cand = 0 /\ wcount = 0 /\ verdict = "none"
    /\ prime_attempts = 0 /\ tries = 0
    /\ outcome = "none" /\ prime = 0 /\ root = 0

\* an assertion fails, a range to sample is empty, an overflow check fires
\* or unimplemented!() is reached: the call is aborted
PrPanic ==
    /\ pr_pc' = "done"
    /\ outcome' = "panic"

\* is_prime(n), lines 61-63 and 52-53: the assertions of
\* check_random_witnesses, then the first draw is due
PrBeginIsPrime(n) ==
    /\ cand' = n
    /\ wcount' = 0
    /\ verdict' = "none"
    /\ IF is_witness_accepts(n)
       THEN pr_pc' = "witness" /\ UNCHANGED outcome
       ELSE PrPanic

\* pick_random_prime, lines 128-149: the range checks, the single candidate,
\* the oracle and the number of attempts
PickRandomPrime ==
    /\ pr_pc = "call"
    /\ IF min > max \/ max < 3
       THEN /\ pr_pc' = "done"
            /\ outcome' = "InvalidRange"
            /\ UNCHANGED <<mode, cand, wcount, verdict, prime_attempts>>
       ELSE IF min = max
       THEN /\ mode' = "single"
            /\ PrBeginIsPrime(min)
            /\ UNCHANGED prime_attempts
       ELSE IF ~range_contains_known_prime_accepts(min, max)
       THEN /\ PrPanic
            /\ UNCHANGED <<mode, cand, wcount, verdict, prime_attempts>>
       ELSE IF range_contains_known_prime(min, max)
       THEN /\ mode' = "known"
            /\ pr_pc' = "draw"
            /\ UNCHANGED <<cand, wcount, verdict, prime_attempts, outcome>>
       ELSE IF overflow_checks
       THEN \* `min - max` with min < max
            /\ PrPanic
            /\ UNCHANGED <<mode, cand, wcount, verdict, prime_attempts>>
       ELSE /\ mode' = "capped"
            /\ prime_attempts' = prime_attempts_wrapping(min, max)
            /\ pr_pc' = "draw"
            /\ UNCHANGED <<cand, wcount, verdict, outcome>>
    /\ UNCHANGED <<entry, overflow_checks, min, max, tries, prime, root>>

\* lines 139-143 and 151-158: the next candidate of the search, or the end
\* of the capped search
GenCandidate ==
    /\ pr_pc = "draw"
    /\ IF mode = "capped" /\ tries = prime_attempts
       THEN /\ pr_pc' = "done"
            /\ outcome' = "PrimeNotFound"
            /\ UNCHANGED <<cand, wcount, verdict, tries>>
       ELSE /\ mode = "capped" => tries < MaxTries
            /\ tries' = IF mode = "capped" THEN tries + 1 ELSE tries
            /\ \E n \in gen_candidate_range(min, max) : PrBeginIsPrime(n)
    /\ UNCHANGED <<entry, overflow_checks, min, max, mode, prime_attempts,
                   prime, root>>

\* what the caller of is_prime does when is_prime(cand) is false
PrIsComposite ==
    /\ verdict' = "composite"
    /\ IF mode = "single"
       THEN pr_pc' = "done" /\ outcome' = "PrimeNotFound"
       ELSE IF mode = "root"
       THEN PrPanic  \* assert!(is_prime(prime)), line 70
       ELSE pr_pc' = "draw" /\ UNCHANGED outcome

\* check_random_witnesses, lines 55-58: one value is drawn and tested
CheckWitness ==
    /\ pr_pc = "witness"
    /\ wcount < WITNESS_COUNT
    /\ IF witness_range(cand) = {}
       THEN PrPanic /\ UNCHANGED <<wcount, verdict>>
       ELSE \E val \in witness_range(cand) :
              IF is_witness(cand, val)
              THEN PrIsComposite /\ UNCHANGED wcount
              ELSE /\ wcount' = wcount + 1
                   /\ UNCHANGED <<pr_pc, verdict, outcome>>
    /\ UNCHANGED <<entry, overflow_checks, min, max, mode, cand,
                   prime_attempts, tries, prime, root>>

\* no drawn value was a witness: is_prime(cand) is true; pick_random_prime
\* returns Ok(cand), and pick_random_with_root goes on to
\* get_primitive_root, which tests the prime once more and stops at
\* unimplemented!() (lines 69-72)
IsPrimeReturn ==
    /\ pr_pc = "witness"
    /\ wcount = WITNESS_COUNT
    /\ verdict' = "prime"
    /\ IF mode = "root"
       THEN /\ PrPanic
            /\ UNCHANGED <<mode, wcount, prime>>
       ELSE /\ prime' = cand
            /\ IF entry = "pick_random_prime"
               THEN /\ pr_pc' = "done"
                    /\ outcome' = "Ok"
                    /\ UNCHANGED <<mode, wcount>>
               ELSE /\ mode' = "root"
                    /\ wcount' = 0
                    /\ UNCHANGED <<pr_pc, outcome>>
    /\ UNCHANGED <<entry, overflow_checks, min, max, cand, prime_attempts,
                   tries, root>>

PrNext == PickRandomPrime \/ GenCandidate \/ CheckWitness \/ IsPrimeReturn

InitPrimes == MxIdle /\ CrIdle /\ EcbIdle /\ PrInit /\ OrIdle

NextPrimes == PrNext /\ UNCHANGED <<mxVars, crVars, ecbVars, orVars>>

SpecPrimes == InitPrimes /\ [][NextPrimes]_vars

\* ------------------------------------------------------------------------
\* One call of range_contains_known_prime
\* ------------------------------------------------------------------------
OracleArgs == (0 .. MaxOracleArg) \cup ((NumMAX - OracleTop + 1) .. NumMAX)

OrInit ==
    /\ or_pc = "call"
    /\ or_min \in OracleArgs
    /\ or_max \in OracleArgs
    /\ or_ret = FALSE

OracleCall ==
    /\ or_pc = "call"
    /\ IF range_contains_known_prime_accepts(or_min, or_max)
       THEN /\ or_ret' = range_contains_known_prime(or_min, or_max)
            /\ or_pc' = "done"
       ELSE /\ or_pc' = "panic"
            /\ UNCHANGED or_ret
    /\ UNCHANGED <<or_min, or_max>>

InitOracle == MxIdle /\ CrIdle /\ EcbIdle /\ PrIdle /\ OrInit

NextOracle == OracleCall /\ UNCHANGED <<mxVars, crVars, ecbVars, prVars>>

SpecOracle == InitOracle /\ [][NextOracle]_vars

\* ------------------------------------------------------------------------
\* Properties of mod_exp
\* ------------------------------------------------------------------------
\* C1: whenever mod_exp accepts its arguments (modulus > 0, not base = 0 and
\* exponent = 0 together) it returns, and the value returned, by a shortcut
\* or by the loop, is base^exponent mod modulus.
C1_ModExpCorrect ==
    /\ (mx_pc = "done" => mx_ret = PowMod(arg_base, exponent, modulus))
    /\ (mx_pc = "panic" => (modulus = 0 \/ (arg_base = 0 /\ exponent = 0)))
    /\ (mx_pc = "done" => mx_ret = mod_exp(arg_base, exponent, modulus))

\* a call that went through all BITS_PER_NUM passes of the loop with the
\* largest exponent and returned a value other than 0 and 1
C1_Witness ==
    /\ mx_pc = "done"
    /\ iter = 0
    /\ exponent = NumMAX
    /\ mx_ret > 1

\* C2 as stated: for every base, 0 included, and every modulus > 0,
\* mod_exp(base, 0, modulus) returns 1 % modulus.
C2_Original ==
    (mx_pc \in {"done", "panic"} /\ exponent = 0 /\ modulus > 0)
        => (mx_pc = "done" /\ mx_ret = 1 % modulus)

\* C2 amended: for every base > 0 and every modulus > 0,
\* mod_exp(base, 0, modulus) returns 1 % modulus; mod_exp(0, 0, modulus)
\* fails the assertion on base + exponent and returns nothing.
C2_ZeroExponent ==
    (mx_pc \in {"done", "panic"} /\ exponent = 0 /\ modulus > 0)
        => IF arg_base > 0
           THEN mx_pc = "done" /\ mx_ret = 1 % modulus
           ELSE mx_pc = "panic"

\* a call with exponent 0 and modulus 1 returned
C2_Witness ==
    /\ mx_pc = "done"
    /\ exponent = 0
    /\ arg_base > 0
    /\ modulus = 1
    /\ mx_ret = 0

\* C3 as stated: for every n > 1 and every exponent, 0 included,
\* mod_exp(n, exponent, n) returns 0.
C3_Original ==
    (mx_pc \in {"done", "panic"} /\ arg_base = modulus /\ modulus > 1)
        => (mx_pc = "done" /\ mx_ret = 0)

\* C3 amended: for every n > 1, mod_exp(n, exponent, n) returns 0 for every
\* exponent >= 1 and returns 1 for exponent 0.
C3_SelfModulus ==
    (mx_pc \in {"done", "panic"} /\ arg_base = modulus /\ modulus > 1)
        => /\ mx_pc = "done"
           /\ mx_ret = (IF exponent = 0 THEN 1 ELSE 0)

\* mod_exp(n, exponent, n) returned for the largest n and an exponent >= 1
C3_Witness ==
    /\ mx_pc = "done"
    /\ arg_base = modulus
    /\ modulus = NumMAX
    /\ exponent >= 1
    /\ mx_ret = 0

\* ------------------------------------------------------------------------
\* Properties of the block cipher
\* ------------------------------------------------------------------------
\* C4: with a matched key pair, every block in [0, Block::MAX] and every r
\* that encrypt_block can draw, decrypt_block of the encrypted pair returns
\* the block, and no assertion of encrypt_block_det, mod_exp or
\* decrypt_block (result <= Block::MAX) fires.
C4_BlockRoundTrip ==
    /\ cr_pc # "panic"
    /\ (cr_pc = "decrypted" => decrypted = block)

\* the largest block, encrypted with the largest exponent that can be drawn,
\* r = p - 1, came back from decrypt_block
C4_Witness ==
    /\ cr_pc = "decrypted"
    /\ block = BlockMAX
    /\ r = public.prime - 1
    /\ c1 = 1
    /\ decrypted = BlockMAX

\* C12 as stated: encrypt_block draws r from [1, p-1), so 1 <= r <= p-2 for
\* every draw, and returns c1 = g^r mod p and c2 = block * (pub^r mod p) mod p.
C12_Original ==
    cr_pc \in {"encrypted", "decrypted"} =>
        /\ 1 <= r /\ r <= public.prime - 2
        /\ c1 = PowMod(public.root, r, public.prime)
        /\ c2 = (block * PowMod(public.value, r, public.prime)) % public.prime

\* C12 amended: encrypt_block draws r from [1, p), so 1 <= r <= p-1 for every
\* draw, p-1 included, and returns c1 = g^r mod p and
\* c2 = block * (pub^r mod p) mod p; for r = p-1 the pair is (1, block).
C12_EphemeralExponent ==
    /\ cr_pc \in {"encrypted", "decrypted"} =>
          /\ 1 <= r /\ r <= public.prime - 1
          /\ c1 = PowMod(public.root, r, public.prime)
          /\ c2 = (block * PowMod(public.value, r, public.prime)) % public.prime
          /\ (r = public.prime - 1 => c1 = 1 /\ c2 = block)
    /\ cr_pc = "panic" => r \notin encrypt_block_range(public)

\* encrypt_block drew r = p - 1 for a block other than 0 and 1 under a
\* public value other than 1, and returned the block itself behind c1 = 1
C12_Witness ==
    /\ cr_pc = "encrypted"
    /\ r = public.prime - 1
    /\ public.value # 1
    /\ block > 1
    /\ c2 = block

\* ------------------------------------------------------------------------
\* Properties of the ECB driver
\* ------------------------------------------------------------------------
\* C5: encrypt_ecb followed by decrypt_ecb with the matched key writes
\* exactly the bytes of the plaintext, in order, for every length (0 and the
\* multiples of BLOCK_BYTES included): while decrypting, the output is the
\* plaintext up to the blocks emitted so far, and at the end it is the
\* whole plaintext; neither run fails.
C5_EcbRoundTrip ==
    /\ ecb_pc \notin {"panic", "error"}
    /\ (ecb_pc = "decrypt" =>
          /\ Len(out) <= Len(plain)
          /\ out = SubSeq(plain, 1, Len(out))
          /\ Len(out) % BLOCK_BYTES = 0)
    /\ (ecb_pc = "done" => out = plain)

\* a stream of two whole blocks went through both runs: three pairs were
\* written, the last one for the fully padded block
C5_Witness ==
    /\ ecb_pc = "done"
    /\ Len(plain) = 2 * BLOCK_BYTES
    /\ Len(cipher) = 3 * 2 * NUM_BYTES
    /\ out = plain

\* ------------------------------------------------------------------------
\* Properties of the prime search
\* ------------------------------------------------------------------------
\* a is a strong liar for n: n passes the Miller-Rabin round with base a
\* (a^q = 1, or a^(2^i q) = n - 1 for some i < k, where n - 1 = 2^k q)
IsStrongLiar(n, a) ==
    LET d == CHOOSE e \in [q : 1 .. n, k : 0 .. BITS_PER_NUM] :
                 e.q % 2 = 1 /\ Pow2(e.k) * e.q = n - 1
    IN  \/ PowMod(a, d.q, n) = 1
        \/ \E i \in 0 .. (d.k - 1) : PowMod(a, Pow2(i) * d.q, n) = n - 1

\* C6 as stated: a value returned by pick_random_prime or
\* pick_random_with_root lies in [min, max] and is a prime.
C6_Original ==
    outcome = "Ok" => (min <= prime /\ prime <= max /\ IsPrimeNumber(prime))

\* C6 amended: a value n returned by pick_random_prime or
\* pick_random_with_root lies in [min, max]
\* and has passed WITNESS_COUNT Miller-Rabin rounds: n is odd, n >= 5, and n
\* is a prime or has a strong liar in [2, n-2].
C6_ReturnedInRange ==
    outcome = "Ok" =>
        /\ min <= prime /\ prime <= max
        /\ prime >= 5 /\ prime % 2 = 1
        /\ wcount = WITNESS_COUNT
        /\ (IsPrimeNumber(prime) \/ \E a \in 2 .. (prime - 2) : IsStrongLiar(prime, a))

\* a search over a range wider than one value returned a prime that is
\* neither end of the range
C6_Witness ==
    /\ outcome = "Ok"
    /\ min < prime /\ prime < max
    /\ IsPrimeNumber(prime)

\* C8: an odd prime n >= 3 has no witness in [2, n-2], so is_prime never
\* returns false for a prime, whatever values are drawn.
C8_NoFalseNegative ==
    /\ (pr_pc = "witness" /\ IsPrimeNumber(cand)) =>
          \A val \in witness_range(cand) : ~is_witness(cand, val)
    /\ (verdict = "composite" => ~IsPrimeNumber(cand))

\* is_prime returned true for a prime after WITNESS_COUNT draws
C8_Witness ==
    /\ verdict = "prime"
    /\ wcount = WITNESS_COUNT
    /\ IsPrimeNumber(cand)
    /\ cand >= 7

\* C9: when pick_random_prime has returned a prime p to
\* pick_random_with_root, the call returns (p, g) with g a primitive root
\* of p.
C9_ReturnsPrimitiveRoot ==
    (entry = "pick_random_with_root" /\ pr_pc = "done" /\ IsPrimeNumber(prime)) =>
        (outcome = "Ok" /\ IsPrimitiveRoot(root, prime))

\* C10: pick_random_prime(n, n, rng) with n >= 3 ends with Ok(n) or with
\* Err(PrimeNotFound) and in no other way.
C10_SingleCandidate ==
    (entry = "pick_random_prime" /\ pr_pc = "done" /\ min = max /\ min >= 3) =>
        \/ outcome = "Ok" /\ prime = min
        \/ outcome = "PrimeNotFound"

\* C13: when min < max and range_contains_known_prime(min, max) is false,
\* pick_random_prime computes the attempt count 10 * (max - min + 1),
\* saturating at the largest count, makes at most that many draws, and
\* returns Err(PrimeNotFound) once that many draws have failed; the call is
\* not aborted before its first draw.
C13_AttemptCap ==
    (/\ entry = "pick_random_prime"
     /\ min >= 3 /\ min < max
     /\ ~range_contains_known_prime(min, max)) =>
        /\ (mode = "capped" =>
                /\ prime_attempts = MinOf(10 * (max - min + 1), NumMAX)
                /\ tries <= prime_attempts)
        /\ (pr_pc = "done" /\ outcome = "PrimeNotFound" =>
                tries = MinOf(10 * (max - min + 1), NumMAX))
        /\ (pr_pc = "done" /\ mode = "none" => outcome # "panic")

\* C14: when min < max and range_contains_known_prime(min, max) is true,
\* the search of pick_random_prime ends in no other way than by returning
\* Ok(n) for a drawn candidate n of [min, max].
C14_KnownRangeSearch ==
    (/\ entry = "pick_random_prime"
     /\ min >= 3 /\ min < max
     /\ range_contains_known_prime(min, max)
     /\ pr_pc = "done") =>
        /\ outcome = "Ok"
        /\ prime = cand
        /\ prime \in min .. max

\* C7: range_contains_known_prime(min, max) with min >= 3 and max >= min
\* returns true only if [min, max] contains a prime.
C7_OracleSound ==
    (or_pc = "done" /\ or_ret) => \E n \in or_min .. or_max : IsPrimeNumber(n)

\* ------------------------------------------------------------------------
\* Properties of the codebook mode
\* ------------------------------------------------------------------------
\* the whole blocks of the plaintext file
PlainBlocks == Len(plain) \div BLOCK_BYTES

PlainBlock(i) == SubSeq(plain, (i - 1) * BLOCK_BYTES + 1, i * BLOCK_BYTES)

\* the pairs written to the ciphertext file so far
CipherPairs == Len(cipher) \div (2 * NUM_BYTES)

CipherPair(i) ==
    LET at == (i - 1) * 2 * NUM_BYTES
    IN  <<from_be_bytes(SubSeq(cipher, at + 1, at + NUM_BYTES)),
          from_be_bytes(SubSeq(cipher, at + NUM_BYTES + 1, at + 2 * NUM_BYTES))>>

\* the pairs that stand for whole blocks of the plaintext
WholePairs == 1 .. MinOf(PlainBlocks, CipherPairs)

\* C11 as stated: blocks are encrypted independently, and two identical
\* plaintext blocks encrypted under the same key always yield the same pair.
C11_Original ==
    \A i, j \in WholePairs :
        PlainBlock(i) = PlainBlock(j) => CipherPair(i) = CipherPair(j)

\* C11 amended: every block is encrypted independently with no chaining
\* state: the pair written for a block is (g^r mod p, block * pub^r mod p)
\* for that block alone and an exponent r drawn for it, whatever blocks
\* precede it; the pairs of two identical blocks agree exactly when their
\* first components g^r agree, that is when the same r was drawn for both,
\* and differ otherwise.
C11_IndependentBlocks ==
    ecb_pc \in {"encrypt", "decrypt", "done"} =>
        /\ \A i \in WholePairs :
              \E rr \in encrypt_block_range(enc_key) :
                  CipherPair(i) =
                      <<PowMod(enc_key.root, rr, enc_key.prime),
                        (from_be_bytes(PlainBlock(i))
                            * PowMod(enc_key.value, rr, enc_key.prime))
                          % enc_key.prime>>
        /\ \A i, j \in WholePairs :
              PlainBlock(i) = PlainBlock(j) =>
                  (CipherPair(i) = CipherPair(j)
                      <=> CipherPair(i)[1] = CipherPair(j)[1])

\* two identical blocks of one stream were written as two different pairs
C11_Witness ==
    /\ ecb_pc = "done"
    /\ PlainBlocks >= 2
    /\ PlainBlock(1) = PlainBlock(2)
    /\ CipherPair(1) # CipherPair(2)
    /\ out = plain

===========================================================================
